---- MODULE Spec2Model ----
(***************************************************************************)
(* dense_index: DenseIndexedContainer<Container, IndexType>, the adapter   *)
(* that forwards strong-index operations onto an owned sequence container  *)
(* (src/dense_index.hpp, lines 550-1110).  The container modelled is the   *)
(* growable sequence (std::vector / std::deque) the tests instantiate.     *)
(*                                                                         *)
(* An adapter is its one member container_: here the sequence c[x] of its  *)
(* elements and, for std::vector, the capacity cap[x].  Raw positions are  *)
(* size_t values of SizeBits bits; iterators are records [off |-> n]       *)
(* counted from the container's begin().                                   *)
(*                                                                         *)
(* Two history variables record what clients see: last, the latest call    *)
(* with its arguments, result and the contents before it; appended[x], the *)
(* indices returned by the current run of consecutive appends that began   *)
(* on an empty adapter x.                                                  *)
(*                                                                         *)
(* raw is a plain container of the same type that a differential test      *)
(* drives next to adapter "a" through raw positions.                       *)
(*                                                                         *)
(* build is the latest declaration or expression given to the compiler,    *)
(* with the types it names and whether the compiler accepts it.            *)
(*                                                                         *)
(* ix is an index variable of a program, the object that ++, --, += and -= *)
(* change in place.                                                        *)
(*                                                                         *)
(* held is the set of indices a client kept from appends to adapter "a",   *)
(* each with the value of the element it was returned for.                 *)
(*                                                                         *)
(* threads is the position of each thread of a program whose threads call  *)
(* push_back on adapter "a" with no lock around the calls.                 *)
(***************************************************************************)
EXTENDS Integers, Sequences, FiniteSets, TLC

VARIABLES c, cap, last, appended, raw, build, ix, held, threads

vars == <<c, cap, last, appended, raw, build, ix, held, threads>>

\* what a call on an adapter leaves alone
beside_adapters == <<raw, build, ix, held, threads>>

\* what a step of the differential test leaves alone
beside_diff == <<build, ix, held, threads>>

\* what the compiler leaves alone
beside_build == <<c, cap, last, appended, raw, ix, held, threads>>

\* what arithmetic on an index leaves alone
beside_index == <<c, cap, appended, raw, build, held, threads>>

\* what a call of a client that keeps indices leaves alone
beside_held == <<raw, build, ix, threads>>

\* what a step of a thread inside push_back leaves alone
beside_threads == <<last, appended, raw, build, ix, held>>

---------------------------------------------------------------------------
(* Bounds of the model *)

\* longest container the model grows
MaxSize == 3

\* width of std::size_t / std::ptrdiff_t in the model
SizeBits == 4

SizeMod == 2 ^ SizeBits

\* largest capacity the model lets a container allocate
MaxCap == MaxSize

\* the element values clients store (value_type is std::string in the tests)
Values == {"Alice", "Bob", "Charlie"}

\* value_type(): the value-initialised element resize(count) appends
ValueInit == ""

Elems == Values \cup {ValueInit}

\* the two adapters of one type a program holds
Adapters == {"a", "b"}

\* raw positions clients put into an index: in range, one past the end, beyond,
\* and the largest size_t
Positions == (0 .. (MaxSize + 1)) \cup {SizeMod - 1}

\* the literal element sequences a fresh adapter is constructed from
InitLists == {<<>>, <<"Charlie">>, <<"Bob", "Alice">>}

---------------------------------------------------------------------------
(* Integer conversions *)

\* conversion of an integer to std::size_t
to_size_t(n) == n % SizeMod

\* static_cast<difference_type>(size_t): the same bits read as signed
to_difference_type(n) ==
    IF n % SizeMod >= SizeMod \div 2 THEN (n % SizeMod) - SizeMod ELSE n % SizeMod

---------------------------------------------------------------------------
(* StrongIndex and the value-extraction contract *)

\* explicit StrongIndex(underlying_type value) : value_(value)
index_type(n) == [value_ |-> to_size_t(n)]

\* StrongIndex::get()
get(idx) == idx.value_

\* StrongIndex::value()
value(idx) == idx.value_

\* explicit operator underlying_type() of StrongIndex
convert(idx) == idx.value_

\* the three forms a raw position is read through
Forms == {"get", "value", "convert"}

\* the forms an index object offers: StrongIndex, the object with the member
\* value_, offers all three; an object of a client's type is the record of what
\* each accessor it has returns
forms(idx) == IF "value_" \in DOMAIN idx THEN Forms ELSE DOMAIN idx

\* idx.get(), idx.value() or static_cast<std::size_t>(idx)
extract(idx, form) ==
    IF "value_" \in DOMAIN idx
    THEN CASE form = "get" -> get(idx)
           [] form = "value" -> value(idx)
           [] form = "convert" -> convert(idx)
    ELSE idx[form]

\* an extraction that asks for value() before get()
get_index_value_value_first(idx) ==
    IF "value" \in forms(idx) THEN extract(idx, "value")
    ELSE IF "get" \in forms(idx) THEN extract(idx, "get")
    ELSE extract(idx, "convert")

\* get_index_value: get() if the type has it, else value(), else the conversion
get_index_value(idx) ==
    IF "get" \in forms(idx) THEN extract(idx, "get")
    ELSE IF "value" \in forms(idx) THEN extract(idx, "value")
    ELSE extract(idx, "convert")

Indices == {index_type(n) : n \in Positions}

---------------------------------------------------------------------------
(* Arithmetic on a StrongIndex.  The operators that change the index in    *)
(* place give the object after the call (obj) and what the call returns    *)
(* (ret).                                                                  *)

\* the values of std::ptrdiff_t
PtrdiffMin == -(SizeMod \div 2)

PtrdiffMax == (SizeMod \div 2) - 1

\* a signed subtraction: its result where std::ptrdiff_t holds it, and any
\* value where it overflows, which the language leaves undefined
signed_minus(m, n) ==
    IF PtrdiffMin <= m - n /\ m - n <= PtrdiffMax THEN {m - n} ELSE PtrdiffMin .. PtrdiffMax

\* operator++(): ++value_; return *this
pre_increment(idx) ==
    [obj |-> index_type(idx.value_ + 1), ret |-> index_type(idx.value_ + 1)]

\* a post-increment that yields the incremented index
post_increment_returns_new(idx) ==
    [obj |-> index_type(idx.value_ + 1), ret |-> index_type(idx.value_ + 1)]

\* operator++(int): tmp(*this); ++value_; return tmp
post_increment(idx) == [obj |-> index_type(idx.value_ + 1), ret |-> idx]

\* operator--(): --value_; return *this
pre_decrement(idx) ==
    [obj |-> index_type(idx.value_ - 1), ret |-> index_type(idx.value_ - 1)]

\* operator--(int): tmp(*this); --value_; return tmp
post_decrement(idx) == [obj |-> index_type(idx.value_ - 1), ret |-> idx]

\* operator+(underlying_type n): StrongIndex(value_ + n)
operator_plus(idx, n) == index_type(idx.value_ + n)

\* a subtraction that stops at raw position 0 instead of wrapping
operator_minus_clamped(idx, n) == index_type(IF n > idx.value_ THEN 0 ELSE idx.value_ - n)

\* operator-(underlying_type n): StrongIndex(value_ - n)
operator_minus(idx, n) == index_type(idx.value_ - n)

\* operator+=(underlying_type n): value_ += n; return *this
operator_plus_assign(idx, n) ==
    [obj |-> index_type(idx.value_ + n), ret |-> index_type(idx.value_ + n)]

\* operator-=(underlying_type n): value_ -= n; return *this
operator_minus_assign(idx, n) ==
    [obj |-> index_type(idx.value_ - n), ret |-> index_type(idx.value_ - n)]

\* a difference taken the other way round
operator_difference_reversed(idx, other) ==
    signed_minus(to_difference_type(other.value_), to_difference_type(idx.value_))

\* operator-(StrongIndex other): the two raw positions cast to std::ptrdiff_t
\* and subtracted
operator_difference(idx, other) ==
    signed_minus(to_difference_type(idx.value_), to_difference_type(other.value_))

\* operator<=> (defaulted): the raw positions compared as unsigned integers
index_less(idx, other) == idx.value_ < other.value_

---------------------------------------------------------------------------
(* The owned container: the operations the adapter forwards to *)

\* an iterator is its offset from the first element
iter(n) == [off |-> n]

\* container_.begin() / container_.cbegin()
begin(s) == iter(0)

\* an end() that stops at the last element instead of after it
end_at_back(s) == iter(IF Len(s) = 0 THEN 0 ELSE Len(s) - 1)

\* container_.end()
end(s) == iter(Len(s))

\* it + n on a random-access iterator
it_plus(it, n) == iter(it.off + n)

\* std::distance(first, second)
distance(first, second) == second.off - first.off

\* container_.size()
size(s) == Len(s)

\* container_.empty(): begin() == end()
container_empty(s) == begin(s) = end(s)

\* container_.max_size(): no more elements than difference_type can count
max_size == (SizeMod \div 2) - 1

\* container_[n], n < size()
container_subscript(s, n) == s[n + 1]

\* a bounds check that lets the position size() through
container_at_inclusive(s, n) ==
    IF n <= Len(s) THEN [outcome |-> "ok", out |-> IF n < Len(s) THEN {s[n + 1]} ELSE {}]
    ELSE [outcome |-> "out_of_range", out |-> {}]

\* container_.at(n): the element, or std::out_of_range when n >= size()
container_at(s, n) ==
    IF n < Len(s) THEN [outcome |-> "ok", out |-> {s[n + 1]}]
    ELSE [outcome |-> "out_of_range", out |-> {}]

\* container_.push_back(value) / container_.emplace_back(args...)
container_push_back(s, v) == Append(s, v)

\* container_.pop_back(), size() > 0
container_pop_back(s) == SubSeq(s, 1, Len(s) - 1)

\* container_.insert(it, value): value placed before it; the iterator to it
container_insert(s, it, v) ==
    [seq |-> SubSeq(s, 1, it.off) \o <<v>> \o SubSeq(s, it.off + 1, Len(s)),
     it |-> iter(it.off)]

\* container_.erase(it): the iterator following the removed element
container_erase(s, it) ==
    [seq |-> SubSeq(s, 1, it.off) \o SubSeq(s, it.off + 2, Len(s)),
     it |-> iter(it.off)]

\* container_.erase(first, last): the iterator following the last removed element
container_erase_range(s, first_it, last_it) ==
    [seq |-> SubSeq(s, 1, first_it.off) \o SubSeq(s, last_it.off + 1, Len(s)),
     it |-> iter(first_it.off)]

\* container_.resize(count, value)
container_resize(s, count, v) ==
    IF count <= Len(s) THEN SubSeq(s, 1, count)
    ELSE s \o [i \in 1 .. (count - Len(s)) |-> v]

\* Container(): no elements
container_default == <<>>

\* Container(count): count value-initialised elements
container_count(count) == [i \in 1 .. count |-> ValueInit]

\* Container(count, value): count copies of value
container_count_value(count, v) == [i \in 1 .. count |-> v]

\* Container(first, last): the elements of [first, last) in their order
container_range(src, first_it, last_it) ==
    [i \in 1 .. distance(first_it, last_it) |-> src[first_it.off + i]]

\* Container(init): the elements of the initializer list in their order
container_list(init) == [i \in 1 .. Len(init) |-> init[i]]

\* Container(other): a copy of other, element by element
container_copy(other) == [i \in 1 .. Len(other) |-> other[i]]

\* the capacities a container may have once it must hold `need` elements:
\* unchanged when they fit, otherwise any reallocation large enough
grown(capx, need) == IF need <= capx THEN {capx} ELSE need .. MaxCap

---------------------------------------------------------------------------
(* DenseIndexedContainer: what each member computes from container_ *)

\* DenseIndexedContainer() = default
construct_default == container_default

\* explicit DenseIndexedContainer(const Container& c) : container_(c)
construct_copy(cont) == container_copy(cont)

\* explicit DenseIndexedContainer(Container&& c) : container_(std::move(c))
construct_move(cont) == cont

\* a range constructor that takes the elements from last back to first
construct_range_reversed(src, first_it, last_it) ==
    [i \in 1 .. distance(first_it, last_it) |-> src[last_it.off + 1 - i]]

\* DenseIndexedContainer(InputIt first, InputIt last) : container_(first, last)
construct_range(src, first_it, last_it) == container_range(src, first_it, last_it)

\* explicit DenseIndexedContainer(size_type count) : container_(count)
construct_count(count) == container_count(count)

\* DenseIndexedContainer(size_type count, const value_type& value) : container_(count, value)
construct_count_value(count, v) == container_count_value(count, v)

\* DenseIndexedContainer(std::initializer_list<value_type> init) : container_(init)
construct_list(init) == container_list(init)

\* operator[](index_type idx), idx within the container
subscript(s, idx) == container_subscript(s, get_index_value(idx))

\* operator[] that ignores its index and refers to the first element
subscript_assign_front(s, idx, v) == [s EXCEPT ![1] = v]

\* adapter[idx] = v: assignment through the reference operator[] returns
subscript_assign(s, idx, v) == [s EXCEPT ![get_index_value(idx) + 1] = v]

\* at() forwarding to the unchecked operator[]: nothing is raised out of range
at_unchecked(s, idx) ==
    IF get_index_value(idx) < Len(s)
    THEN [outcome |-> "ok", out |-> {container_subscript(s, get_index_value(idx))}]
    ELSE [outcome |-> "ok", out |-> {}]

\* at(index_type idx)
at(s, idx) == container_at(s, get_index_value(idx))

\* insert returning size() - 1 as push_back does
insert_returns_back(s, pos, v) ==
    LET it == it_plus(begin(s), to_difference_type(get_index_value(pos)))
        r == container_insert(s, it, v)
    IN [seq |-> r.seq, ret |-> index_type(size(r.seq) - 1)]

\* insert(index_type pos, const value_type& value) and its value_type&& overload
insert(s, pos, v) ==
    LET it == it_plus(begin(s), to_difference_type(get_index_value(pos)))
        r == container_insert(s, it, v)
    IN [seq |-> r.seq, ret |-> index_type(distance(begin(r.seq), r.it))]

\* erase returning the index before the removed element
erase_returns_previous(s, pos) ==
    LET it == it_plus(begin(s), to_difference_type(get_index_value(pos)))
        r == container_erase(s, it)
    IN [seq |-> r.seq,
        ret |-> index_type(IF r.it.off = 0 THEN 0 ELSE distance(begin(r.seq), r.it) - 1)]

\* erase with the offset of pos left out: container_.erase(container_.begin())
erase_at_begin(s, pos) ==
    LET it == begin(s)
        r == container_erase(s, it)
    IN [seq |-> r.seq, ret |-> index_type(distance(begin(r.seq), r.it))]

\* erase(index_type pos)
erase(s, pos) ==
    LET it == it_plus(begin(s), to_difference_type(get_index_value(pos)))
        r == container_erase(s, it)
    IN [seq |-> r.seq, ret |-> index_type(distance(begin(r.seq), r.it))]

\* erase(first, last) returning last as it was given, not the iterator erase returns
erase_range_returns_last(s, first, lst) ==
    LET first_it == it_plus(begin(s), to_difference_type(get_index_value(first)))
        last_it == it_plus(begin(s), to_difference_type(get_index_value(lst)))
        r == container_erase_range(s, first_it, last_it)
    IN [seq |-> r.seq, ret |-> index_type(distance(begin(r.seq), last_it))]

\* erase(index_type first, index_type last)
erase_range(s, first, lst) ==
    LET first_it == it_plus(begin(s), to_difference_type(get_index_value(first)))
        last_it == it_plus(begin(s), to_difference_type(get_index_value(lst)))
        r == container_erase_range(s, first_it, last_it)
    IN [seq |-> r.seq, ret |-> index_type(distance(begin(r.seq), r.it))]

\* a push_back that puts the element in front of the others
push_back_at_front(s, v) ==
    [seq |-> <<v>> \o s, ret |-> index_type(size(s))]

\* push_back returning size() instead of size() - 1
push_back_returns_size(s, v) ==
    LET s1 == container_push_back(s, v)
    IN [seq |-> s1, ret |-> index_type(size(s1))]

\* push_back(const value_type& value) and its value_type&& overload
push_back(s, v) ==
    LET s1 == container_push_back(s, v)
    IN [seq |-> s1, ret |-> index_type(size(s1) - 1)]

\* emplace_back returning size() instead of size() - 1
emplace_back_returns_size(s, v) ==
    LET s1 == container_push_back(s, v)
    IN [seq |-> s1, ret |-> index_type(size(s1))]

\* emplace_back(Args&&... args), the arguments constructing the element v
emplace_back(s, v) ==
    LET s1 == container_push_back(s, v)
    IN [seq |-> s1, ret |-> index_type(size(s1) - 1)]

\* a pop_back that removes the first element instead of the last
pop_back_front(s) == SubSeq(s, 2, Len(s))

\* pop_back()
pop_back(s) == container_pop_back(s)

\* a resize that leaves one element of padding after the requested count
resize_padded(s, count) == container_resize(s, count + 1, ValueInit)

\* resize(size_type count)
resize(s, count) == container_resize(s, count, ValueInit)

\* a resize that ignores the fill value
resize_fill_default(s, count, v) == container_resize(s, count, ValueInit)

\* resize(size_type count, const value_type& value)
resize_fill(s, count, v) == container_resize(s, count, v)

\* clear()
clear(s) == <<>>

\* empty()
empty(s) == container_empty(s)

\* capacity() of adapter x
capacity(x) == cap[x]

\* swap that copies other's container and leaves other as it was
swap_copies(cc, x, y) == [cc EXCEPT ![x] = cc[y]]

\* swap(DenseIndexedContainer& other): std::swap of the two container_ members
swap(cc, x, y) == [cc EXCEPT ![x] = cc[y], ![y] = cc[x]]

\* free function swap(lhs, rhs): lhs.swap(rhs)
free_swap(cc, x, y) == swap(cc, x, y)

\* iterator_at(index_type idx)
iterator_at(s, idx) == it_plus(begin(s), to_difference_type(get_index_value(idx)))

\* index_of with the arguments of std::distance exchanged
index_of_reversed(s, it) == index_type(to_size_t(distance(it, begin(s))))

\* index_of(const_iterator it)
index_of(s, it) == index_type(to_size_t(distance(begin(s), it)))

\* *it for an iterator that refers to an element
deref(s, it) == s[it.off + 1]

\* for (it = first; it != lst; ++it) visiting *it: the elements in visiting order
RECURSIVE visit(_, _, _)
visit(s, first, lst) ==
    IF first = lst THEN <<>>
    ELSE <<deref(s, first)>> \o visit(s, it_plus(first, 1), lst)

\* for (const auto& e : adapter), from begin() to end()
range_for(s) == visit(s, begin(s), end(s))

\* the container a reference refers to, among the containers cc of the program
referred(cc, ref) == cc[ref.to]

\* an underlying() that hands out some other container than the adapter's own
underlying_elsewhere(x) == [to |-> CHOOSE y \in Adapters : y # x]

\* underlying(): Container& to container_, the one member of adapter x
underlying(x) == [to |-> x]

---------------------------------------------------------------------------
(* Comparison of two adapters: forwarded to the containers' own operators *)

\* the element values in the order of value_type's operator<
value_order == <<"", "Alice", "Bob", "Charlie">>

value_rank(v) == CHOOSE k \in 1 .. Len(value_order) : value_order[k] = v

\* v <=> w on two elements
value_three_way(v, w) ==
    IF value_rank(v) < value_rank(w) THEN "less"
    ELSE IF value_rank(v) > value_rank(w) THEN "greater"
    ELSE "equal"

\* the container's operator==: equal sizes, then element by element
container_equal(s, t) ==
    /\ Len(s) = Len(t)
    /\ \A k \in 1 .. Len(s) : value_three_way(s[k], t[k]) = "equal"

\* the container's operator<=>: std::lexicographical_compare_three_way
RECURSIVE container_three_way(_, _)
container_three_way(s, t) ==
    IF s = <<>> /\ t = <<>> THEN "equal"
    ELSE IF s = <<>> THEN "less"
    ELSE IF t = <<>> THEN "greater"
    ELSE IF value_three_way(Head(s), Head(t)) # "equal"
         THEN value_three_way(Head(s), Head(t))
         ELSE container_three_way(Tail(s), Tail(t))

\* an equality that looks at the sizes alone
operator_eq_sizes(lhs, rhs) == Len(lhs) = Len(rhs)

\* operator==(lhs, rhs): lhs.container_ == rhs.container_
operator_eq(lhs, rhs) == container_equal(lhs, rhs)

\* an ordering that puts every shorter container first
operator_three_way_shortlex(lhs, rhs) ==
    IF Len(lhs) < Len(rhs) THEN "less"
    ELSE IF Len(lhs) > Len(rhs) THEN "greater"
    ELSE container_three_way(lhs, rhs)

\* operator<=>(lhs, rhs): lhs.container_ <=> rhs.container_
operator_three_way(lhs, rhs) == container_three_way(lhs, rhs)

---------------------------------------------------------------------------
(* Types as the compiler sees them.  A type is described by what decides    *)
(* the concepts and overload resolution of this library: whether it is      *)
(* integral, whether T{n} is well-formed for a std::size_t n, how it is     *)
(* made from an integer (ctor) and turned into one (conv), which accessors  *)
(* it has, and whether it declares comparison operators.                    *)

\* a StrongIndex whose tag does not take part in the type
StrongIndexUntagged(Tag) ==
    [name |-> "StrongIndex", tag |-> "Tag", integral |-> FALSE, brace |-> TRUE,
     ctor |-> "explicit", get |-> TRUE, value |-> TRUE, conv |-> "explicit", cmp |-> TRUE]

\* a StrongIndex whose constructor is not explicit
StrongIndexImplicit(Tag) ==
    [name |-> "StrongIndex", tag |-> Tag, integral |-> FALSE, brace |-> TRUE,
     ctor |-> "implicit", get |-> TRUE, value |-> TRUE, conv |-> "explicit", cmp |-> TRUE]

\* template<IndexTag Tag> class StrongIndex: explicit constructor, explicit
\* conversion, value(), get(), defaulted <=> and ==
StrongIndex(Tag) ==
    [name |-> "StrongIndex", tag |-> Tag, integral |-> FALSE, brace |-> TRUE,
     ctor |-> "explicit", get |-> TRUE, value |-> TRUE, conv |-> "explicit", cmp |-> TRUE]

\* struct BoostStyleStrongType: implicit operator std::size_t
BoostStyleStrongType ==
    [name |-> "BoostStyleStrongType", tag |-> "none", integral |-> FALSE, brace |-> TRUE,
     ctor |-> "explicit", get |-> FALSE, value |-> FALSE, conv |-> "implicit", cmp |-> TRUE]

\* template<typename Tag> struct NamedTypeStyle: get() alone
NamedTypeStyle(Tag) ==
    [name |-> "NamedTypeStyle", tag |-> Tag, integral |-> FALSE, brace |-> TRUE,
     ctor |-> "explicit", get |-> TRUE, value |-> FALSE, conv |-> "none", cmp |-> TRUE]

\* template<typename Tag> struct OptionalStyle: value() alone
OptionalStyle(Tag) ==
    [name |-> "OptionalStyle", tag |-> Tag, integral |-> FALSE, brace |-> TRUE,
     ctor |-> "explicit", get |-> FALSE, value |-> TRUE, conv |-> "none", cmp |-> TRUE]

\* struct FlexibleStrongType: get(), value() and implicit operator std::size_t
FlexibleStrongType ==
    [name |-> "FlexibleStrongType", tag |-> "none", integral |-> FALSE, brace |-> TRUE,
     ctor |-> "explicit", get |-> TRUE, value |-> TRUE, conv |-> "implicit", cmp |-> TRUE]

\* struct EmployeeTag {}: an empty class
EmployeeTag ==
    [name |-> "EmployeeTag", tag |-> "none", integral |-> FALSE, brace |-> FALSE,
     ctor |-> "none", get |-> FALSE, value |-> FALSE, conv |-> "none", cmp |-> FALSE]

\* size_type = std::size_t
size_type ==
    [name |-> "std::size_t", tag |-> "none", integral |-> TRUE, brace |-> TRUE,
     ctor |-> "implicit", get |-> FALSE, value |-> FALSE, conv |-> "implicit", cmp |-> FALSE]

\* int: int{n} narrows a std::size_t and is ill-formed
int ==
    [name |-> "int", tag |-> "none", integral |-> TRUE, brace |-> FALSE,
     ctor |-> "implicit", get |-> FALSE, value |-> FALSE, conv |-> "implicit", cmp |-> FALSE]

\* the type names programs write
TypeNames ==
    {"EmployeeIndex", "DepartmentIndex", "BoostStyleStrongType", "NamedTypeStyle<Tag1>",
     "OptionalStyle<Tag2>", "FlexibleStrongType", "EmployeeTag", "std::size_t", "int"}

\* the type a name denotes
type(n) ==
    CASE n = "EmployeeIndex" -> StrongIndex("EmployeeTag")
      [] n = "DepartmentIndex" -> StrongIndex("DepartmentTag")
      [] n = "BoostStyleStrongType" -> BoostStyleStrongType
      [] n = "NamedTypeStyle<Tag1>" -> NamedTypeStyle("Tag1")
      [] n = "OptionalStyle<Tag2>" -> OptionalStyle("Tag2")
      [] n = "FlexibleStrongType" -> FlexibleStrongType
      [] n = "EmployeeTag" -> EmployeeTag
      [] n = "std::size_t" -> size_type
      [] n = "int" -> int

\* a concept that asks for all three extraction forms at once
StrongIndexTypeAllForms(T) ==
    /\ ~T.integral
    /\ T.brace
    /\ (T.get /\ T.value /\ T.conv # "none")

\* concept StrongIndexType: not integral, T{n} well-formed, and get() or
\* value() or static_cast<std::size_t>
StrongIndexType(T) ==
    /\ ~T.integral
    /\ T.brace
    /\ (T.get \/ T.value \/ T.conv # "none")

\* the implicit conversion of an argument of type A to a parameter of type P:
\* none, or its rank; at most one user-defined conversion takes part
implicit_conversion(A, P) ==
    IF A = P THEN "exact"
    ELSE IF A.integral /\ P.integral THEN "standard"
    ELSE IF P.integral /\ A.conv = "implicit" THEN "user"
    ELSE IF A.integral /\ P.ctor = "implicit" THEN "user"
    ELSE "none"

\* better conversions have smaller ranks
rank(k) == CASE k = "exact" -> 0 [] k = "standard" -> 1 [] k = "user" -> 2

\* the overloads of an adapter member that takes an index, for bound type I
overloads(I, m) ==
    IF m \in {"operator[]", "at"}
    THEN {[param |-> I, deleted |-> FALSE], [param |-> size_type, deleted |-> TRUE]}
    ELSE {[param |-> I, deleted |-> FALSE]}

viable(cands, A) == {o \in cands : implicit_conversion(A, o.param) # "none"}

best(cands, A) ==
    {o \in viable(cands, A) :
        \A q \in viable(cands, A) :
            rank(implicit_conversion(A, o.param)) <= rank(implicit_conversion(A, q.param))}

\* overload resolution succeeds: one best viable function, and it is not deleted
resolves(cands, A) ==
    /\ Cardinality(best(cands, A)) = 1
    /\ \A o \in best(cands, A) : ~o.deleted

\* a == b and a < b compile: an operator of either class applies, or both
\* operands convert to integers and the built-in operator applies
compares(A, B) ==
    \/ A.cmp /\ implicit_conversion(B, A) # "none"
    \/ B.cmp /\ implicit_conversion(A, B) # "none"
    \/ /\ implicit_conversion(A, size_type) # "none"
       /\ implicit_conversion(B, size_type) # "none"

\* the container templates and the members each one declares
Containers == {"std::vector", "std::array", "std::deque", "std::list"}

members(C) ==
    CASE C = "std::vector" ->
             {"operator[]", "at", "front", "back", "data", "begin", "end", "empty", "size",
              "max_size", "capacity", "reserve", "shrink_to_fit", "clear", "insert", "erase",
              "push_back", "emplace_back", "pop_back", "resize"}
      [] C = "std::array" ->
             {"operator[]", "at", "front", "back", "data", "begin", "end", "empty", "size",
              "max_size"}
      [] C = "std::deque" ->
             {"operator[]", "at", "front", "back", "begin", "end", "empty", "size",
              "max_size", "shrink_to_fit", "clear", "insert", "erase",
              "push_back", "emplace_back", "pop_back", "resize"}
      [] C = "std::list" ->
             {"front", "back", "begin", "end", "empty", "size",
              "max_size", "clear", "insert", "erase",
              "push_back", "emplace_back", "pop_back", "resize"}

HasIndexOperator(C) == "operator[]" \in members(C)

HasAt(C) == "at" \in members(C)

HasSize(C) == "size" \in members(C)

HasEmpty(C) == "empty" \in members(C)

HasCapacity(C) == "capacity" \in members(C)

HasReserve(C) == "reserve" \in members(C)

HasClear(C) == "clear" \in members(C)

\* a predicate every container satisfies
HasPushBackAlways(C) == TRUE

HasPushBack(C) == "push_back" \in members(C)

HasPopBack(C) == "pop_back" \in members(C)

HasEmplaceBack(C) == "emplace_back" \in members(C)

HasFront(C) == "front" \in members(C)

HasBack(C) == "back" \in members(C)

HasResize(C) == "resize" \in members(C)

HasInsert(C) == "insert" \in members(C)

HasErase(C) == "erase" \in members(C)

HasData(C) == "data" \in members(C)

HasShrinkToFit(C) == "shrink_to_fit" \in members(C)

\* concept IndexableContainer: begin(), end(), operator[] and size()
IndexableContainer(C) ==
    /\ {"begin", "end"} \subseteq members(C)
    /\ HasIndexOperator(C)
    /\ HasSize(C)

\* the members of DenseIndexedContainer
Methods ==
    {"operator[]", "at", "front", "back", "data", "begin", "end", "empty", "size",
     "max_size", "capacity", "reserve", "shrink_to_fit", "clear", "insert", "erase",
     "push_back", "emplace_back", "pop_back", "resize"}

\* the requires-clause of each member of DenseIndexedContainer<C, I>
available(C, m) ==
    CASE m = "operator[]" -> HasIndexOperator(C)
      [] m = "at" -> HasAt(C)
      [] m = "front" -> HasFront(C)
      [] m = "back" -> HasBack(C)
      [] m = "data" -> HasData(C)
      [] m \in {"begin", "end", "size", "index_of", "iterator_at"} -> TRUE
      [] m = "empty" -> HasEmpty(C)
      [] m = "max_size" -> "max_size" \in members(C)
      [] m = "capacity" -> HasCapacity(C)
      [] m = "reserve" -> HasReserve(C)
      [] m = "shrink_to_fit" -> HasShrinkToFit(C)
      [] m = "clear" -> HasClear(C)
      [] m = "insert" -> HasInsert(C)
      [] m = "erase" -> HasErase(C)
      [] m = "push_back" -> HasPushBack(C)
      [] m = "emplace_back" -> HasEmplaceBack(C)
      [] m = "pop_back" -> HasPopBack(C)
      [] m = "resize" -> HasResize(C)

---------------------------------------------------------------------------
(* The last call a client made, with what it was given and what it got *)

NoCall ==
    [op |-> "construct", who |-> "a", pos |-> {}, pos2 |-> {}, val |-> {},
     count |-> {}, ret |-> {}, out |-> {}, outcome |-> "ok",
     pre |-> [x \in Adapters |-> <<>>], other |-> {}, tmp |-> <<>>]

\* a call `op` on adapter x, made in the current state
Call(op, x) == [NoCall EXCEPT !.op = op, !.who = x, !.pre = c]

\* the run of appends on x after one more append that returned ret
run_extended(x, ret) ==
    [appended EXCEPT ![x] = IF c[x] = <<>> THEN <<ret>>
                            ELSE IF appended[x] # <<>> THEN Append(appended[x], ret)
                            ELSE <<>>]

\* any other call on x ends the run
run_ended(x) == [appended EXCEPT ![x] = <<>>]

\* nothing compiled yet
NoBuild ==
    [expr |-> "none", container |-> "none", index |-> "none", method |-> "none",
     arg |-> "none", accepted |-> TRUE]

\* the threads of the program
Threads == {"t1", "t2"}

\* no thread has called push_back yet
NoThreads ==
    [pc |-> [t \in Threads |-> "idle"],
     val |-> [t \in Threads |-> ValueInit],
     seen |-> [t \in Threads |-> 0],
     ret |-> [t \in Threads |-> {}],
     together |-> FALSE]

TypeOK ==
    /\ c \in [Adapters -> Seq(Elems)]
    /\ \A x \in Adapters : Len(c[x]) <= MaxSize /\ Len(c[x]) <= cap[x] /\ cap[x] <= MaxCap
    /\ last.who \in Adapters
    /\ last.outcome \in {"ok", "out_of_range", "length_error"}

Init ==
    /\ c = [x \in Adapters |-> <<>>]
    /\ cap = [x \in Adapters |-> 0]
    /\ last = NoCall
    /\ appended = [x \in Adapters |-> <<>>]
    /\ raw = <<>>
    /\ build = NoBuild
    /\ ix = index_type(0)
    /\ held = {}
    /\ threads = NoThreads

\* push_back that refuses to grow: std::length_error when no capacity is left
PushBackNoGrowth(x, v) ==
    /\ Len(c[x]) < MaxSize
    /\ IF Len(c[x]) >= cap[x]
       THEN /\ last' = [Call("push_back", x) EXCEPT !.val = {v}, !.outcome = "length_error"]
            /\ appended' = run_ended(x)
            /\ UNCHANGED <<c, cap>>
       ELSE LET r == push_back(c[x], v)
            IN /\ c' = [c EXCEPT ![x] = r.seq]
               /\ last' = [Call("push_back", x) EXCEPT !.val = {v}, !.ret = {r.ret}]
               /\ appended' = run_extended(x, r.ret)
               /\ UNCHANGED cap

---------------------------------------------------------------------------
(* One action per call on an adapter x *)

PushBack(x, v) ==
    /\ Len(c[x]) < MaxSize
    /\ LET r == push_back(c[x], v)
       IN /\ c' = [c EXCEPT ![x] = r.seq]
          /\ \E k \in grown(cap[x], Len(r.seq)) : cap' = [cap EXCEPT ![x] = k]
          /\ last' = [Call("push_back", x) EXCEPT !.val = {v}, !.ret = {r.ret}]
          /\ appended' = run_extended(x, r.ret)

EmplaceBack(x, v) ==
    /\ Len(c[x]) < MaxSize
    /\ LET r == emplace_back(c[x], v)
       IN /\ c' = [c EXCEPT ![x] = r.seq]
          /\ \E k \in grown(cap[x], Len(r.seq)) : cap' = [cap EXCEPT ![x] = k]
          /\ last' = [Call("emplace_back", x) EXCEPT !.val = {v}, !.ret = {r.ret}]
          /\ appended' = run_extended(x, r.ret)

\* pop_back() on an empty container is outside the container's contract
PopBack(x) ==
    /\ Len(c[x]) > 0
    /\ c' = [c EXCEPT ![x] = pop_back(c[x])]
    /\ last' = Call("pop_back", x)
    /\ UNCHANGED cap
    /\ appended' = run_ended(x)

\* the position must be one of the container: 0 .. size()
Insert(x, pos, v) ==
    /\ Len(c[x]) < MaxSize
    /\ get_index_value(pos) <= Len(c[x])
    /\ LET r == insert(c[x], pos, v)
       IN /\ c' = [c EXCEPT ![x] = r.seq]
          /\ \E k \in grown(cap[x], Len(r.seq)) : cap' = [cap EXCEPT ![x] = k]
          /\ last' = [Call("insert", x) EXCEPT !.pos = {pos}, !.val = {v}, !.ret = {r.ret}]
    /\ appended' = run_ended(x)

\* the position must be that of an element
Erase(x, pos) ==
    /\ get_index_value(pos) < Len(c[x])
    /\ LET r == erase(c[x], pos)
       IN /\ c' = [c EXCEPT ![x] = r.seq]
          /\ last' = [Call("erase", x) EXCEPT !.pos = {pos}, !.ret = {r.ret}]
    /\ UNCHANGED cap
    /\ appended' = run_ended(x)

\* [first, last) must be a range of the container
EraseRange(x, first, lst) ==
    /\ get_index_value(first) <= get_index_value(lst)
    /\ get_index_value(lst) <= Len(c[x])
    /\ LET r == erase_range(c[x], first, lst)
       IN /\ c' = [c EXCEPT ![x] = r.seq]
          /\ last' = [Call("erase_range", x) EXCEPT
                         !.pos = {first}, !.pos2 = {lst}, !.ret = {r.ret}]
    /\ UNCHANGED cap
    /\ appended' = run_ended(x)

\* a count above max_size() ends in the container's std::length_error
Resize(x, count) ==
    /\ appended' = run_ended(x)
    /\ IF count > max_size
       THEN /\ last' = [Call("resize", x) EXCEPT !.count = {count}, !.outcome = "length_error"]
            /\ UNCHANGED <<c, cap>>
       ELSE /\ count <= MaxSize
            /\ c' = [c EXCEPT ![x] = resize(c[x], count)]
            /\ \E k \in grown(cap[x], count) : cap' = [cap EXCEPT ![x] = k]
            /\ last' = [Call("resize", x) EXCEPT !.count = {count}]

ResizeFill(x, count, v) ==
    /\ appended' = run_ended(x)
    /\ IF count > max_size
       THEN /\ last' = [Call("resize_fill", x) EXCEPT
                           !.count = {count}, !.val = {v}, !.outcome = "length_error"]
            /\ UNCHANGED <<c, cap>>
       ELSE /\ count <= MaxSize
            /\ c' = [c EXCEPT ![x] = resize_fill(c[x], count, v)]
            /\ \E k \in grown(cap[x], count) : cap' = [cap EXCEPT ![x] = k]
            /\ last' = [Call("resize_fill", x) EXCEPT !.count = {count}, !.val = {v}]

\* reserve(new_cap): std::length_error above max_size(), else capacity() >= new_cap
Reserve(x, new_cap) ==
    /\ appended' = run_ended(x)
    /\ IF new_cap > max_size
       THEN /\ last' = [Call("reserve", x) EXCEPT !.count = {new_cap}, !.outcome = "length_error"]
            /\ UNCHANGED <<c, cap>>
       ELSE /\ new_cap <= MaxCap
            /\ \E k \in grown(cap[x], new_cap) : cap' = [cap EXCEPT ![x] = k]
            /\ last' = [Call("reserve", x) EXCEPT !.count = {new_cap}]
            /\ UNCHANGED c

\* shrink_to_fit(): a non-binding request to drop unused capacity
ShrinkToFit(x) ==
    /\ \E k \in Len(c[x]) .. cap[x] : cap' = [cap EXCEPT ![x] = k]
    /\ last' = Call("shrink_to_fit", x)
    /\ UNCHANGED c
    /\ appended' = run_ended(x)

Clear(x) ==
    /\ c' = [c EXCEPT ![x] = clear(c[x])]
    /\ last' = Call("clear", x)
    /\ UNCHANGED cap
    /\ appended' = run_ended(x)

\* x.swap(y) on two adapters of the program
Swap(x, y) ==
    /\ c' = swap(c, x, y)
    /\ cap' = [cap EXCEPT ![x] = cap[y], ![y] = cap[x]]
    /\ last' = [Call("swap", x) EXCEPT !.other = {y}]
    /\ appended' = [z \in Adapters |-> <<>>]

\* swap(x, y), found by argument-dependent lookup
FreeSwap(x, y) ==
    /\ c' = free_swap(c, x, y)
    /\ cap' = [cap EXCEPT ![x] = cap[y], ![y] = cap[x]]
    /\ last' = [Call("free_swap", x) EXCEPT !.other = {y}]
    /\ appended' = [z \in Adapters |-> <<>>]

\* at(idx) for any index of the adapter's domain
At(x, idx) ==
    /\ LET r == at(c[x], idx)
       IN last' = [Call("at", x) EXCEPT !.pos = {idx}, !.out = r.out, !.outcome = r.outcome]
    /\ UNCHANGED <<c, cap>>
    /\ appended' = run_ended(x)

\* reading adapter[idx]; out of range it is outside the contract
Subscript(x, idx) ==
    /\ get_index_value(idx) < Len(c[x])
    /\ last' = [Call("subscript", x) EXCEPT !.pos = {idx}, !.out = {subscript(c[x], idx)}]
    /\ UNCHANGED <<c, cap>>
    /\ appended' = run_ended(x)

\* adapter[idx] = v
SubscriptAssign(x, idx, v) ==
    /\ get_index_value(idx) < Len(c[x])
    /\ c' = [c EXCEPT ![x] = subscript_assign(c[x], idx, v)]
    /\ last' = [Call("subscript_assign", x) EXCEPT !.pos = {idx}, !.val = {v}]
    /\ UNCHANGED cap
    /\ appended' = run_ended(x)

\* index_of(iterator_at(idx)) and *iterator_at(idx); iterator_at(size()) is end()
IteratorAt(x, idx) ==
    /\ get_index_value(idx) <= Len(c[x])
    /\ LET it == iterator_at(c[x], idx)
       IN last' = [Call("iterator_at", x) EXCEPT
                      !.pos = {idx},
                      !.ret = {index_of(c[x], it)},
                      !.out = IF it.off < Len(c[x]) THEN {deref(c[x], it)} ELSE {}]
    /\ UNCHANGED <<c, cap>>
    /\ appended' = run_ended(x)

\* DenseIndexedContainer tmp(init); x.swap(tmp); -- tmp then goes out of scope
SwapFresh(x, init) ==
    /\ LET both == [k \in {x, "tmp"} |-> IF k = x THEN c[x] ELSE init]
           r == swap(both, x, "tmp")
       IN /\ c' = [c EXCEPT ![x] = r[x]]
          /\ last' = [Call("swap_fresh", x) EXCEPT !.tmp = r["tmp"]]
    /\ \E k \in grown(0, Len(init)) : cap' = [cap EXCEPT ![x] = k]
    /\ appended' = run_ended(x)

\* a range-for loop over the adapter, collecting what it visits
Iterate(x) ==
    /\ last' = [Call("iterate", x) EXCEPT !.tmp = range_for(c[x])]
    /\ UNCHANGED <<c, cap>>
    /\ appended' = run_ended(x)

\* auto& u = x.underlying(); u.push_back(v); then x.size(), x[last] and a loop over x
UnderlyingPushBack(x, v) ==
    LET u == underlying(x)
        cc == [c EXCEPT ![u.to] = container_push_back(referred(c, u), v)]
    IN /\ Len(referred(c, u)) < MaxSize
       /\ c' = cc
       /\ \E k \in grown(cap[u.to], Len(cc[u.to])) : cap' = [cap EXCEPT ![u.to] = k]
       /\ last' = [Call("underlying_push_back", x) EXCEPT
                      !.val = {v},
                      !.count = {size(cc[x])},
                      !.out = IF cc[x] = <<>> THEN {}
                              ELSE {subscript(cc[x], index_type(Len(cc[x]) - 1))},
                      !.tmp = range_for(cc[x])]
       /\ appended' = run_ended(x)

\* auto& u = x.underlying(); u[n] = v; then x[index_type(n)]
UnderlyingAssign(x, n, v) ==
    LET u == underlying(x)
        cc == [c EXCEPT ![u.to] = [referred(c, u) EXCEPT ![n + 1] = v]]
    IN /\ n < Len(referred(c, u))
       /\ n < Len(c[x])
       /\ c' = cc
       /\ last' = [Call("underlying_assign", x) EXCEPT
                      !.pos = {index_type(n)},
                      !.val = {v},
                      !.count = {size(cc[x])},
                      !.out = {subscript(cc[x], index_type(n))},
                      !.tmp = range_for(cc[x])]
       /\ UNCHANGED cap
       /\ appended' = run_ended(x)

\* const auto& u = x.underlying(); u.size() and a loop over u
UnderlyingRead(x) ==
    LET u == underlying(x)
    IN /\ last' = [Call("underlying_read", x) EXCEPT
                      !.count = {Len(referred(c, u))},
                      !.tmp = referred(c, u)]
       /\ UNCHANGED <<c, cap>>
       /\ appended' = run_ended(x)

\* x == y, and with it x != y, its negation
Equal(x, y) ==
    /\ last' = [Call("equal", x) EXCEPT !.other = {y}, !.out = {operator_eq(c[x], c[y])}]
    /\ UNCHANGED <<c, cap>>
    /\ appended' = run_ended(x)

\* x <=> y together with y <=> x: x < y is (x <=> y) < 0, y > x is (y <=> x) > 0
Compare(x, y) ==
    /\ last' = [Call("compare", x) EXCEPT
                   !.other = {y},
                   !.out = {operator_three_way(c[x], c[y])},
                   !.ret = {operator_three_way(c[y], c[x])}]
    /\ UNCHANGED <<c, cap>>
    /\ appended' = run_ended(x)

---------------------------------------------------------------------------
(* One action per operator applied to the index variable ix *)

PreIncrement ==
    /\ ix' = pre_increment(ix).obj
    /\ last' = [Call("pre_increment", "a") EXCEPT !.pos = {ix}, !.ret = {pre_increment(ix).ret}]
    /\ UNCHANGED beside_index

PostIncrement ==
    /\ ix' = post_increment(ix).obj
    /\ last' = [Call("post_increment", "a") EXCEPT !.pos = {ix}, !.ret = {post_increment(ix).ret}]
    /\ UNCHANGED beside_index

PreDecrement ==
    /\ ix' = pre_decrement(ix).obj
    /\ last' = [Call("pre_decrement", "a") EXCEPT !.pos = {ix}, !.ret = {pre_decrement(ix).ret}]
    /\ UNCHANGED beside_index

PostDecrement ==
    /\ ix' = post_decrement(ix).obj
    /\ last' = [Call("post_decrement", "a") EXCEPT !.pos = {ix}, !.ret = {post_decrement(ix).ret}]
    /\ UNCHANGED beside_index

\* auto r = ix + n
Plus(n) ==
    /\ last' = [Call("plus", "a") EXCEPT !.pos = {ix}, !.count = {n}, !.ret = {operator_plus(ix, n)}]
    /\ UNCHANGED ix
    /\ UNCHANGED beside_index

\* auto r = ix - n
Minus(n) ==
    /\ last' = [Call("minus", "a") EXCEPT !.pos = {ix}, !.count = {n}, !.ret = {operator_minus(ix, n)}]
    /\ UNCHANGED ix
    /\ UNCHANGED beside_index

\* ix += n
PlusAssign(n) ==
    /\ ix' = operator_plus_assign(ix, n).obj
    /\ last' = [Call("plus_assign", "a") EXCEPT
                   !.pos = {ix}, !.count = {n}, !.ret = {operator_plus_assign(ix, n).ret}]
    /\ UNCHANGED beside_index

\* ix -= n
MinusAssign(n) ==
    /\ ix' = operator_minus_assign(ix, n).obj
    /\ last' = [Call("minus_assign", "a") EXCEPT
                   !.pos = {ix}, !.count = {n}, !.ret = {operator_minus_assign(ix, n).ret}]
    /\ UNCHANGED beside_index

\* auto d = ix - other; auto e = other - ix
Difference(other) ==
    /\ \E d \in operator_difference(ix, other), e \in operator_difference(other, ix) :
           last' = [Call("difference", "a") EXCEPT
                       !.pos = {ix}, !.pos2 = {other}, !.out = {d}, !.count = {e}]
    /\ UNCHANGED ix
    /\ UNCHANGED beside_index

\* auto d = (ix + n) - ix
PlusDifference(n) ==
    /\ \E d \in operator_difference(operator_plus(ix, n), ix) :
           last' = [Call("plus_difference", "a") EXCEPT
                       !.pos = {ix}, !.count = {n}, !.out = {d}]
    /\ UNCHANGED ix
    /\ UNCHANGED beside_index

---------------------------------------------------------------------------
(* One action per declaration or expression the compiler is given *)

\* static_assert(StrongIndexType<T>)
CheckConcept(T) ==
    /\ build' = [NoBuild EXCEPT !.expr = "concept", !.index = T,
                                !.accepted = StrongIndexType(type(T))]
    /\ UNCHANGED beside_build

\* DenseIndexedContainer<C, I> adapter;
Instantiate(C, I) ==
    /\ build' = [NoBuild EXCEPT !.expr = "instantiate", !.container = C, !.index = I,
                                !.accepted = IndexableContainer(C) /\ StrongIndexType(type(I))]
    /\ UNCHANGED beside_build

\* adapter.m(...) on a DenseIndexedContainer<C, I>, with arguments of the
\* declared parameter types
MemberCall(C, I, m) ==
    /\ IndexableContainer(C)
    /\ StrongIndexType(type(I))
    /\ build' = [NoBuild EXCEPT !.expr = "member", !.container = C, !.index = I,
                                !.method = m, !.accepted = available(C, m)]
    /\ UNCHANGED beside_build

\* adapter.m(a) on a DenseIndexedContainer<std::vector<...>, I>, a of type A
IndexCall(I, m, A) ==
    /\ StrongIndexType(type(I))
    /\ build' = [NoBuild EXCEPT !.expr = "call", !.container = "std::vector", !.index = I,
                                !.method = m, !.arg = A,
                                !.accepted = /\ available("std::vector", m)
                                             /\ resolves(overloads(type(I), m), type(A))]
    /\ UNCHANGED beside_build

\* P p = a; and p = a; for a of type A
CopyInit(P, A) ==
    /\ build' = [NoBuild EXCEPT !.expr = "copy_init", !.index = P, !.arg = A,
                                !.accepted = implicit_conversion(type(A), type(P)) # "none"]
    /\ UNCHANGED beside_build

\* a == b and a < b for a of type A and b of type B
CompareIndex(A, op, B) ==
    /\ build' = [NoBuild EXCEPT !.expr = "compare", !.index = A, !.method = op, !.arg = B,
                                !.accepted = compares(type(A), type(B))]
    /\ UNCHANGED beside_build

---------------------------------------------------------------------------
(* One action per constructor: a new adapter takes the place of x *)

\* the adapter x becomes `built` from the argument src; the container built
\* the same way is kept in last.out
Constructed(op, x, src, built, same) ==
    /\ c' = [c EXCEPT ![x] = built]
    /\ \E k \in grown(0, Len(built)) : cap' = [cap EXCEPT ![x] = k]
    /\ last' = [Call(op, x) EXCEPT !.tmp = src, !.out = {same}]
    /\ appended' = run_ended(x)

ConstructDefault(x) ==
    Constructed("construct_default", x, <<>>, construct_default, container_default)

ConstructCopy(x, cont) ==
    Constructed("construct_copy", x, cont, construct_copy(cont), container_copy(cont))

ConstructMove(x, cont) ==
    Constructed("construct_move", x, cont, construct_move(cont), cont)

\* [first, last) must be a range of src
ConstructRange(x, src, first_it, last_it) ==
    /\ first_it.off <= last_it.off
    /\ last_it.off <= Len(src)
    /\ c' = [c EXCEPT ![x] = construct_range(src, first_it, last_it)]
    /\ \E k \in grown(0, distance(first_it, last_it)) : cap' = [cap EXCEPT ![x] = k]
    /\ last' = [Call("construct_range", x) EXCEPT
                   !.tmp = src, !.pos = {first_it}, !.pos2 = {last_it},
                   !.out = {container_range(src, first_it, last_it)}]
    /\ appended' = run_ended(x)

\* a count above max_size() ends in the container's std::length_error and no
\* adapter comes to be
ConstructCount(x, count) ==
    /\ appended' = run_ended(x)
    /\ IF count > max_size
       THEN /\ last' = [Call("construct_count", x) EXCEPT
                           !.count = {count}, !.outcome = "length_error"]
            /\ UNCHANGED <<c, cap>>
       ELSE /\ count <= MaxSize
            /\ c' = [c EXCEPT ![x] = construct_count(count)]
            /\ \E k \in grown(0, count) : cap' = [cap EXCEPT ![x] = k]
            /\ last' = [Call("construct_count", x) EXCEPT
                           !.count = {count}, !.out = {container_count(count)}]

ConstructCountValue(x, count, v) ==
    /\ appended' = run_ended(x)
    /\ IF count > max_size
       THEN /\ last' = [Call("construct_count_value", x) EXCEPT
                           !.count = {count}, !.val = {v}, !.outcome = "length_error"]
            /\ UNCHANGED <<c, cap>>
       ELSE /\ count <= MaxSize
            /\ c' = [c EXCEPT ![x] = construct_count_value(count, v)]
            /\ \E k \in grown(0, count) : cap' = [cap EXCEPT ![x] = k]
            /\ last' = [Call("construct_count_value", x) EXCEPT
                           !.count = {count}, !.val = {v},
                           !.out = {container_count_value(count, v)}]

ConstructList(x, init) ==
    Constructed("construct_list", x, init, construct_list(init), container_list(init))

---------------------------------------------------------------------------
(* What becomes of the indices a client kept, call by call *)

\* auto idx = a.push_back(v): the client may keep the returned index
KeptAppend(keep) ==
    held' = IF keep THEN held \cup {[idx |-> r, val |-> v] : r \in last'.ret, v \in last'.val}
            ELSE held

\* a[idx] = v: the element a kept idx refers to now has the value v
KeptWrite(idx, v) ==
    held' = {IF h.idx = idx THEN [h EXCEPT !.val = v] ELSE h : h \in held}

\* a.pop_back(): a kept index of the removed element is dropped by the client
KeptPopBack ==
    held' = {h \in held : get_index_value(h.idx) < size(c'["a"])}

\* reserve, shrink_to_fit and reads: every kept index stays in use
KeptAll == held' = held

\* insert, erase, clear: the client drops the indices it kept
KeptNone == held' = {}

---------------------------------------------------------------------------
(* push_back called by several threads with no lock: the calls race, and the *)
(* outcomes are the interleavings of their accesses to container_            *)

\* no thread has brought the program down
Running == \A t \in Threads : threads.pc[t] # "crashed"

\* the threads inside push_back: between its first access and its return
Inside == {t \in Threads : threads.pc[t] \in {"entered", "stored"}}

\* container_.push_back(value), first half: the end position is taken
Entered(t, v) ==
    /\ threads' = [threads EXCEPT !.pc[t] = "entered", !.val[t] = v,
                                  !.seen[t] = size(c["a"]), !.ret[t] = {},
                                  !.together = FALSE]
    /\ UNCHANGED <<c, cap>>
    /\ UNCHANGED beside_threads

\* a push_back that waits until no other thread is inside push_back
EnterLocked(t, v) ==
    /\ Running
    /\ threads.pc[t] \in {"idle", "returned"}
    /\ Inside = {}
    /\ size(c["a"]) + Cardinality(Inside) < MaxSize
    /\ Entered(t, v)

\* thread t calls push_back(v): nothing in the adapter makes it wait
Enter(t, v) ==
    /\ Running
    /\ threads.pc[t] \in {"idle", "returned"}
    /\ size(c["a"]) + Cardinality(Inside) < MaxSize
    /\ Entered(t, v)

\* the contents once v is put at position seen and the size set to seen + 1:
\* elements from seen on are cut off, and positions the container had given
\* up by then hold whatever was left in them
stored(s, seen, v) ==
    IF seen <= Len(s) THEN {SubSeq(s, 1, seen) \o <<v>>}
    ELSE {s \o left \o <<v>> : left \in [1 .. (seen - Len(s)) -> Elems]}

\* container_.push_back(value), second half: the element is put at the
\* position taken and the size set to one more.  When another thread stored
\* since the position was taken, the element lands on that thread's element or
\* the program crashes
Store(t) ==
    /\ Running
    /\ threads.pc[t] = "entered"
    /\ \/ /\ \E s \in stored(c["a"], threads.seen[t], threads.val[t]) :
                 c' = [c EXCEPT !["a"] = s]
          /\ \E k \in grown(cap["a"], threads.seen[t] + 1) : cap' = [cap EXCEPT !["a"] = k]
          /\ threads' = [threads EXCEPT
                 !.pc[t] = "stored",
                 !.together = \A u \in Threads \ {t} : threads.pc[u] = "stored"]
       \/ /\ threads.seen[t] # size(c["a"])
          /\ threads' = [threads EXCEPT !.pc[t] = "crashed"]
          /\ UNCHANGED <<c, cap>>
    /\ UNCHANGED beside_threads

\* return index_type(container_.size() - 1)
Return(t) ==
    /\ Running
    /\ threads.pc[t] = "stored"
    /\ threads' = [threads EXCEPT !.pc[t] = "returned",
                                  !.ret[t] = {index_type(size(c["a"]) - 1)}]
    /\ UNCHANGED <<c, cap>>
    /\ UNCHANGED beside_threads

---------------------------------------------------------------------------
(* Specifications *)

\* the counts clients pass: within the model's sizes, and one above max_size()
Counts == (0 .. MaxCap) \cup {max_size + 1}

\* one adapter driven through every operation
Next ==
    \/ \E v \in Values : PushBack("a", v) /\ UNCHANGED beside_adapters
    \/ \E v \in Values : EmplaceBack("a", v) /\ UNCHANGED beside_adapters
    \/ PopBack("a") /\ UNCHANGED beside_adapters
    \/ \E pos \in Indices, v \in Values : Insert("a", pos, v) /\ UNCHANGED beside_adapters
    \/ \E pos \in Indices : Erase("a", pos) /\ UNCHANGED beside_adapters
    \/ \E first \in Indices, lst \in Indices : EraseRange("a", first, lst) /\ UNCHANGED beside_adapters
    \/ \E count \in Counts : Resize("a", count) /\ UNCHANGED beside_adapters
    \/ \E count \in Counts, v \in Values : ResizeFill("a", count, v) /\ UNCHANGED beside_adapters
    \/ \E new_cap \in Counts : Reserve("a", new_cap) /\ UNCHANGED beside_adapters
    \/ ShrinkToFit("a") /\ UNCHANGED beside_adapters
    \/ Clear("a") /\ UNCHANGED beside_adapters
    \/ \E init \in InitLists : SwapFresh("a", init) /\ UNCHANGED beside_adapters
    \/ \E idx \in Indices : At("a", idx) /\ UNCHANGED beside_adapters
    \/ \E idx \in Indices : Subscript("a", idx) /\ UNCHANGED beside_adapters
    \/ \E idx \in Indices, v \in Values : SubscriptAssign("a", idx, v) /\ UNCHANGED beside_adapters
    \/ \E idx \in Indices : IteratorAt("a", idx) /\ UNCHANGED beside_adapters
    \/ Iterate("a") /\ UNCHANGED beside_adapters

Spec == Init /\ [][Next]_vars

\* two adapters of the same type, filled and swapped with each other
NextTwo ==
    \/ \E x \in Adapters, v \in Values : PushBack(x, v) /\ UNCHANGED beside_adapters
    \/ \E x \in Adapters : PopBack(x) /\ UNCHANGED beside_adapters
    \/ \E x \in Adapters, y \in Adapters : Swap(x, y) /\ UNCHANGED beside_adapters
    \/ \E x \in Adapters, y \in Adapters : FreeSwap(x, y) /\ UNCHANGED beside_adapters

SpecTwo == Init /\ [][NextTwo]_vars

\* the raw positions written through the underlying container
RawPositions == 0 .. (MaxSize - 1)

\* one adapter changed through its own members and through underlying()
NextUnderlying ==
    \/ \E v \in Values : PushBack("a", v) /\ UNCHANGED beside_adapters
    \/ PopBack("a") /\ UNCHANGED beside_adapters
    \/ \E idx \in Indices, v \in Values : SubscriptAssign("a", idx, v) /\ UNCHANGED beside_adapters
    \/ \E v \in Values : UnderlyingPushBack("a", v) /\ UNCHANGED beside_adapters
    \/ \E n \in RawPositions, v \in Values : UnderlyingAssign("a", n, v) /\ UNCHANGED beside_adapters
    \/ UnderlyingRead("a") /\ UNCHANGED beside_adapters

SpecUnderlying == Init /\ [][NextUnderlying]_vars

\* the differential test: each call on adapter "a" with strong indices, and the
\* same call on the raw container with the raw positions idx.value()
DiffPushBack(v) == PushBack("a", v) /\ raw' = container_push_back(raw, v)

DiffPopBack == PopBack("a") /\ raw' = container_pop_back(raw)

DiffInsert(pos, v) ==
    /\ Insert("a", pos, v)
    /\ raw' = container_insert(raw, it_plus(begin(raw), value(pos)), v).seq

DiffErase(pos) ==
    /\ Erase("a", pos)
    /\ raw' = container_erase(raw, it_plus(begin(raw), value(pos))).seq

DiffEraseRange(first, lst) ==
    /\ EraseRange("a", first, lst)
    /\ raw' = container_erase_range(raw, it_plus(begin(raw), value(first)),
                                    it_plus(begin(raw), value(lst))).seq

\* both resize calls end in std::length_error above max_size()
DiffResize(count) ==
    /\ Resize("a", count)
    /\ raw' = IF count > max_size THEN raw ELSE container_resize(raw, count, ValueInit)

DiffClear == Clear("a") /\ raw' = <<>>

\* dense_vec[PerfIndex(i)] = v next to raw_vec[i] = v
DiffSubscriptAssign(idx, v) ==
    /\ SubscriptAssign("a", idx, v)
    /\ raw' = [raw EXCEPT ![value(idx) + 1] = v]

NextDiff ==
    \/ \E v \in Values : DiffPushBack(v) /\ UNCHANGED beside_diff
    \/ DiffPopBack /\ UNCHANGED beside_diff
    \/ \E pos \in Indices, v \in Values : DiffInsert(pos, v) /\ UNCHANGED beside_diff
    \/ \E pos \in Indices : DiffErase(pos) /\ UNCHANGED beside_diff
    \/ \E first \in Indices, lst \in Indices : DiffEraseRange(first, lst) /\ UNCHANGED beside_diff
    \/ \E count \in Counts : DiffResize(count) /\ UNCHANGED beside_diff
    \/ DiffClear /\ UNCHANGED beside_diff
    \/ \E idx \in Indices, v \in Values : DiffSubscriptAssign(idx, v) /\ UNCHANGED beside_diff

SpecDiff == Init /\ [][NextDiff]_vars

\* the raw positions the accessors of a client's index type return: two, so
\* that two forms of one object can disagree
ClientPositions == {0, 1}

\* index objects of client types: any one, two or three of the forms, each with
\* the raw position it returns
ClientIndices ==
    UNION {[F -> ClientPositions] : F \in (SUBSET Forms) \ {{}}}

\* an adapter bound to a client's index type, accessed through its objects
NextExtract ==
    \/ \E v \in Values : PushBack("a", v) /\ UNCHANGED beside_adapters
    \/ \E idx \in ClientIndices : At("a", idx) /\ UNCHANGED beside_adapters
    \/ \E idx \in ClientIndices : Subscript("a", idx) /\ UNCHANGED beside_adapters
    \/ \E idx \in ClientIndices, v \in Values : Insert("a", idx, v) /\ UNCHANGED beside_adapters
    \/ \E idx \in ClientIndices : Erase("a", idx) /\ UNCHANGED beside_adapters
    \/ \E idx \in ClientIndices : IteratorAt("a", idx) /\ UNCHANGED beside_adapters

SpecExtract == Init /\ [][NextExtract]_vars

\* the adapter members that take an index
IndexMethods == {"operator[]", "at", "insert", "erase", "iterator_at"}

\* the programs given to the compiler, one declaration or expression at a time
NextBuild ==
    \/ \E T \in TypeNames : CheckConcept(T)
    \/ \E C \in Containers, I \in TypeNames : Instantiate(C, I)
    \/ \E C \in Containers, I \in TypeNames, m \in Methods : MemberCall(C, I, m)
    \/ \E I \in TypeNames, m \in IndexMethods, A \in TypeNames : IndexCall(I, m, A)
    \/ \E P \in TypeNames, A \in TypeNames : CopyInit(P, A)
    \/ \E A \in TypeNames, op \in {"==", "<"}, B \in TypeNames : CompareIndex(A, op, B)

SpecBuild == Init /\ [][NextBuild]_vars

\* the containers and literal sequences an adapter is constructed from
Sources == InitLists \cup {<<"Alice", "Bob", "Charlie">>}

\* the iterators into a source container
Iterators == {iter(n) : n \in 0 .. MaxSize}

\* a program constructing adapters and using them
NextConstruct ==
    \/ ConstructDefault("a") /\ UNCHANGED beside_adapters
    \/ \E cont \in Sources : ConstructCopy("a", cont) /\ UNCHANGED beside_adapters
    \/ \E cont \in Sources : ConstructMove("a", cont) /\ UNCHANGED beside_adapters
    \/ \E src \in Sources, first_it \in Iterators, last_it \in Iterators :
           ConstructRange("a", src, first_it, last_it) /\ UNCHANGED beside_adapters
    \/ \E count \in Counts : ConstructCount("a", count) /\ UNCHANGED beside_adapters
    \/ \E count \in Counts, v \in Values :
           ConstructCountValue("a", count, v) /\ UNCHANGED beside_adapters
    \/ \E init \in Sources : ConstructList("a", init) /\ UNCHANGED beside_adapters
    \/ \E v \in Values : PushBack("a", v) /\ UNCHANGED beside_adapters
    \/ \E idx \in Indices : At("a", idx) /\ UNCHANGED beside_adapters

SpecConstruct == Init /\ [][NextConstruct]_vars

\* a client that keeps indices returned by appends and goes on using the adapter
NextHeld ==
    \/ \E v \in Values, keep \in BOOLEAN :
           PushBack("a", v) /\ KeptAppend(keep) /\ UNCHANGED beside_held
    \/ \E v \in Values, keep \in BOOLEAN :
           EmplaceBack("a", v) /\ KeptAppend(keep) /\ UNCHANGED beside_held
    \/ \E new_cap \in Counts : Reserve("a", new_cap) /\ KeptAll /\ UNCHANGED beside_held
    \/ ShrinkToFit("a") /\ KeptAll /\ UNCHANGED beside_held
    \/ \E idx \in Indices, v \in Values :
           SubscriptAssign("a", idx, v) /\ KeptWrite(idx, v) /\ UNCHANGED beside_held
    \/ PopBack("a") /\ KeptPopBack /\ UNCHANGED beside_held
    \/ \E idx \in Indices : Subscript("a", idx) /\ KeptAll /\ UNCHANGED beside_held
    \/ \E pos \in Indices, v \in Values : Insert("a", pos, v) /\ KeptNone /\ UNCHANGED beside_held
    \/ \E pos \in Indices : Erase("a", pos) /\ KeptNone /\ UNCHANGED beside_held
    \/ Clear("a") /\ KeptNone /\ UNCHANGED beside_held

SpecHeld == Init /\ [][NextHeld]_vars

\* threads appending to one adapter with no lock around their calls
NextThreads ==
    \/ \E t \in Threads, v \in Values : Enter(t, v)
    \/ \E t \in Threads : Store(t)
    \/ \E t \in Threads : Return(t)

SpecThreads == Init /\ [][NextThreads]_vars

\* the raw offsets added to and subtracted from an index: small ones, the two
\* around the largest std::ptrdiff_t, and the largest std::size_t
Offsets == {0, 1, 2, 3, PtrdiffMax, PtrdiffMax + 1, SizeMod - 1}

\* the indices ix is subtracted from and compared with: small ones and the
\* largest raw position
OtherIndices == {index_type(n) : n \in {0, 1, 2, SizeMod - 1}}

\* a program doing arithmetic on one index
NextIndex ==
    \/ PreIncrement
    \/ PostIncrement
    \/ PreDecrement
    \/ PostDecrement
    \/ \E n \in Offsets : Plus(n)
    \/ \E n \in Offsets : Minus(n)
    \/ \E n \in Offsets : PlusAssign(n)
    \/ \E n \in Offsets : MinusAssign(n)
    \/ \E other \in OtherIndices : Difference(other)
    \/ \E n \in Offsets : PlusDifference(n)

SpecIndex == Init /\ [][NextIndex]_vars

\* the element values of the compared adapters
CompareValues == {"Alice", "Bob"}

\* the positions written through adapter[idx] = v before a comparison
CompareIndices == {index_type(n) : n \in 0 .. (MaxSize - 1)}

\* two adapters of the same type, filled, overwritten and compared
NextCompare ==
    \/ \E x \in Adapters, v \in CompareValues : PushBack(x, v) /\ UNCHANGED beside_adapters
    \/ \E x \in Adapters : PopBack(x) /\ UNCHANGED beside_adapters
    \/ \E x \in Adapters, idx \in CompareIndices, v \in CompareValues : SubscriptAssign(x, idx, v) /\ UNCHANGED beside_adapters
    \/ \E y \in Adapters : Equal("a", y) /\ UNCHANGED beside_adapters
    \/ \E y \in Adapters : Compare("a", y) /\ UNCHANGED beside_adapters

SpecCompare == Init /\ [][NextCompare]_vars

---------------------------------------------------------------------------
(* Properties *)

\* the adapter the last call was made on, before and after the call
Pre == last.pre[last.who]

Now == c[last.who]

\* the one member of a singleton
Only(S) == CHOOSE e \in S : TRUE

Appends == {"push_back", "emplace_back"}

Erases == {"erase", "erase_range"}

Swaps == {"swap", "free_swap"}

\* the raw range [first, last) the last erase was given
ErasedFirst == value(Only(last.pos))

ErasedLast == IF last.op = "erase" THEN ErasedFirst + 1 ELSE value(Only(last.pos2))

\* C1: N consecutive appends (push_back or emplace_back) on an empty adapter
\* return the indices with raw positions 0, 1, ..., N-1, in that order.
C1_AppendsCountFromZero ==
    \A x \in Adapters :
        \A i \in 1 .. Len(appended[x]) : value(appended[x][i]) = i - 1

C1_Witness ==
    /\ Len(appended["a"]) = 3
    /\ c["a"] = <<"Alice", "Bob", "Charlie">>

\* C2: in every reachable state push_back(v) and emplace_back(v) return the
\* index size()-1 measured after the insertion, which is the size before the
\* call, and adapter[returned index] == v.
C2_AppendReturnsLastPosition ==
    last.op \in Appends =>
        \E r \in last.ret :
            /\ last.ret = {r}
            /\ value(r) = size(Now) - 1
            /\ value(r) = size(Pre)
            /\ subscript(Now, r) = Only(last.val)

C2_Witness ==
    /\ last.op = "emplace_back"
    /\ Len(Pre) = 2
    /\ Pre[1] = ValueInit
    /\ last.ret = {index_type(2)}

\* C3: erase(first, last) removes exactly the positions [first, last): size
\* drops by last-first, positions below first keep their elements, and the
\* element formerly at p >= last is afterwards at p-(last-first); erase(idx)
\* is the range [idx, idx+1).
C3_EraseShiftsTail ==
    last.op \in Erases =>
        LET n == ErasedLast - ErasedFirst
        IN /\ size(Now) = size(Pre) - n
           /\ \A p \in 0 .. (size(Pre) - 1) :
                  /\ p < ErasedFirst => Now[p + 1] = Pre[p + 1]
                  /\ p >= ErasedLast => Now[p - n + 1] = Pre[p + 1]

\* Alice, Bob, Charlie; erase(index(1)): size 2 and adapter[index(1)] is Charlie
C3_Witness ==
    /\ last.op = "erase"
    /\ last.pos = {index_type(1)}
    /\ Pre = <<"Alice", "Bob", "Charlie">>
    /\ size(Now) = 2
    /\ subscript(Now, index_type(1)) = "Charlie"

\* C4: for a non-empty erased range that does not reach the end, erase returns
\* the index of raw position first, which in the container after the erase
\* refers to the element that stood directly after the last erased one.
C4_EraseReturnsFollowing ==
    (last.op \in Erases /\ ErasedFirst < ErasedLast /\ ErasedLast < size(Pre)) =>
        \E r \in last.ret :
            /\ last.ret = {r}
            /\ value(r) = ErasedFirst
            /\ subscript(Now, r) = Pre[ErasedLast + 1]

C4_Witness ==
    /\ last.op = "erase_range"
    /\ last.pos = {index_type(0)}
    /\ last.pos2 = {index_type(2)}
    /\ Pre = <<"Alice", "Bob", "Charlie">>
    /\ last.ret = {index_type(0)}
    /\ Now = <<"Charlie">>

\* C5: insert(pos, v) with pos.value() <= size() returns the index of the new
\* element: its raw position is pos.value(), adapter[it] == v, size grows by
\* one, positions below pos are unchanged and the element formerly at
\* p >= pos is afterwards at p+1.
C5_InsertReturnsPosition ==
    last.op = "insert" =>
        LET at_pos == value(Only(last.pos))
        IN \E r \in last.ret :
               /\ last.ret = {r}
               /\ value(r) = at_pos
               /\ size(Now) = size(Pre) + 1
               /\ subscript(Now, r) = Only(last.val)
               /\ \A p \in 0 .. (size(Pre) - 1) :
                      /\ p < at_pos => Now[p + 1] = Pre[p + 1]
                      /\ p >= at_pos => Now[p + 2] = Pre[p + 1]

C5_Witness ==
    /\ last.op = "insert"
    /\ last.pos = {index_type(1)}
    /\ Pre = <<"Alice", "Charlie">>
    /\ Now = <<"Alice", "Bob", "Charlie">>

\* C6: index_of(iterator_at(idx)) == idx for every idx with idx.value() <
\* size(), and *iterator_at(idx) is the element adapter[idx].
C6_IndexOfIteratorAt ==
    (last.op = "iterator_at" /\ value(Only(last.pos)) < size(Now)) =>
        /\ last.ret = last.pos
        /\ last.out = {subscript(Now, Only(last.pos))}

C6_Witness ==
    /\ last.op = "iterator_at"
    /\ last.pos = {index_type(2)}
    /\ Now = <<"Alice", "Bob", "Charlie">>
    /\ last.out = {"Charlie"}

\* C7: adapter[idx], idx.value() < size(), is the element of the underlying
\* container at raw position idx.value(): a read yields it, and a write
\* changes that one position and neither the size nor any other position.
C7_SubscriptIsRawPosition ==
    /\ last.op = "subscript" => last.out = {Now[value(Only(last.pos)) + 1]}
    /\ last.op = "subscript_assign" =>
           /\ size(Now) = size(Pre)
           /\ \A p \in 0 .. (size(Pre) - 1) :
                  Now[p + 1] = IF p = value(Only(last.pos)) THEN Only(last.val)
                               ELSE Pre[p + 1]

C7_Witness ==
    /\ last.op = "subscript_assign"
    /\ last.pos = {index_type(1)}
    /\ Pre = <<"Alice", "Bob", "Charlie">>
    /\ Now = <<"Alice", "Alice", "Charlie">>

\* C8: at(idx) raises the bounds violation for every index with raw position
\* >= size(), and for raw position < size() raises nothing and returns the
\* element adapter[idx].
C8_AtChecksBounds ==
    last.op = "at" =>
        IF value(Only(last.pos)) >= size(Now)
        THEN last.outcome = "out_of_range" /\ last.out = {}
        ELSE last.outcome = "ok" /\ last.out = {subscript(Now, Only(last.pos))}

\* at(index(N)) on an adapter of size N
C8_Witness ==
    /\ last.op = "at"
    /\ size(Now) = 3
    /\ last.pos = {index_type(3)}
    /\ last.outcome = "out_of_range"

C10_SwapExchanges ==
    /\ [](last.op \in Swaps =>
            LET x == last.who
                y == Only(last.other)
            IN /\ c[x] = last.pre[y]
               /\ c[y] = last.pre[x]
               /\ size(c[x]) = size(last.pre[y])
               /\ size(c[y]) = size(last.pre[x]))
    /\ [][(/\ last.op \in Swaps
           /\ last'.op \in Swaps
           /\ {last.who} \cup last.other = {last'.who} \cup last'.other)
          => c' = last.pre]_vars

C10_Witness ==
    /\ last.op = "swap"
    /\ last.who = "a"
    /\ last.other = {"b"}
    /\ last.pre["a"] = <<"Alice", "Bob">>
    /\ c["a"] = <<"Bob", "Bob", "Alice">>
    /\ c["b"] = <<"Alice", "Bob">>


\* the adapter the last call was compared with
Other == c[Only(last.other)]

\* s and t hold the same elements at the same positions
SameSequence(s, t) ==
    /\ Len(s) = Len(t)
    /\ \A k \in 1 .. Len(s) : s[k] = t[k]

\* C11: two adapters compare equal exactly when their containers have the same
\* size and the same element at every position; overwriting one element of one
\* of two equal adapters with another value makes them compare unequal
C11_EqualIffSameContents ==
    /\ [](last.op = "equal" => last.out = {SameSequence(Now, Other)})
    /\ [][(/\ last'.op = "subscript_assign"
           /\ operator_eq(c["a"], c["b"])
           /\ c' # c)
          => ~operator_eq(c'["a"], c'["b"])]_vars

C11_Witness ==
    /\ last.op = "equal"
    /\ last.who # Only(last.other)
    /\ last.out = {FALSE}
    /\ Len(Now) = Len(Other)
    /\ Len(Now) >= 2

\* s comes before t lexicographically: at the first position where they
\* differ s has ended or holds the smaller element
LexLess(s, t) ==
    \E k \in 1 .. Len(t) :
        /\ k <= Len(s) + 1
        /\ \A j \in 1 .. (k - 1) : s[j] = t[j]
        /\ (k = Len(s) + 1 \/ value_rank(s[k]) < value_rank(t[k]))

\* C12: the ordered comparison of two adapters is the lexicographic order of
\* their containers -- a proper prefix is less, the first differing element
\* decides otherwise -- and x < y holds exactly when y > x
C12_OrderIsLexicographic ==
    last.op = "compare" =>
        /\ last.out = {IF LexLess(Now, Other) THEN "less"
                       ELSE IF LexLess(Other, Now) THEN "greater"
                       ELSE "equal"}
        /\ ("less" \in last.out) = ("greater" \in last.ret)

C12_Witness ==
    /\ last.op = "compare"
    /\ last.out = {"greater"}
    /\ Len(Now) < Len(Other)
    /\ Len(Now) >= 1


\* C13: a loop from begin() to end() visits exactly size() elements and the
\* k-th one visited is adapter[index(k)]: nothing is reordered, left out or
\* visited twice
C13_IterationInIndexOrder ==
    last.op = "iterate" =>
        /\ Len(last.tmp) = size(Now)
        /\ \A k \in 0 .. (Len(last.tmp) - 1) :
               last.tmp[k + 1] = subscript(Now, index_type(k))

C13_Witness ==
    /\ last.op = "iterate"
    /\ Len(last.tmp) = MaxSize
    /\ last.tmp[1] # last.tmp[2]
    /\ last.tmp[2] # last.tmp[MaxSize]


\* C14: underlying() is the adapter's own container: what is pushed or written
\* through it shows at once in the adapter's size(), adapter[idx] and iteration,
\* and what the adapter's members changed is what underlying() shows
C14_UnderlyingIsTheContainer ==
    /\ \A x \in Adapters : referred(c, underlying(x)) = c[x]
    /\ last.op = "underlying_push_back" =>
           /\ last.count = {Len(Pre) + 1}
           /\ last.out = last.val
           /\ last.tmp = Append(Pre, Only(last.val))
    /\ last.op = "underlying_assign" =>
           /\ last.count = {Len(Pre)}
           /\ last.out = last.val
           /\ last.tmp = [Pre EXCEPT ![value(Only(last.pos)) + 1] = Only(last.val)]
    /\ last.op = "underlying_read" =>
           /\ last.count = {size(Now)}
           /\ last.tmp = range_for(Now)

C14_Witness ==
    /\ last.op = "underlying_push_back"
    /\ Len(Pre) = 2
    /\ last.count = {3}
    /\ Only(last.val) \notin {Pre[1], Pre[2]}


\* C15: after every step of the differential test the adapter and the raw
\* container hold the same elements in the same order, and so the same size
C15_SameAsRawContainer ==
    /\ size(c["a"]) = Len(raw)
    /\ \A k \in 1 .. Len(raw) : subscript(c["a"], index_type(k - 1)) = raw[k]

C15_Witness ==
    /\ last.op = "insert"
    /\ value(Only(last.pos)) = 1
    /\ Len(raw) = MaxSize
    /\ raw[1] # raw[2]
    /\ raw = c["a"]


\* the position the index of the last call stands for: what its get() returns
\* if it has one, otherwise its value(), otherwise its conversion
Highest(idx) ==
    IF "get" \in DOMAIN idx THEN idx.get
    ELSE IF "value" \in DOMAIN idx THEN idx.value
    ELSE idx.convert

LastPosition == Highest(Only(last.pos))

\* C19: element access, at, insert, erase and iterator_at all act on the
\* position of the highest-priority form the index offers -- get(), else
\* value(), else the conversion -- whatever its other forms return
C19_ExtractionPriority ==
    /\ last.op = "subscript" => last.out = {Pre[LastPosition + 1]}
    /\ last.op = "at" =>
           IF LastPosition < Len(Pre)
           THEN last.outcome = "ok" /\ last.out = {Pre[LastPosition + 1]}
           ELSE last.outcome = "out_of_range"
    /\ last.op = "insert" =>
           Now = SubSeq(Pre, 1, LastPosition) \o <<Only(last.val)>>
                     \o SubSeq(Pre, LastPosition + 1, Len(Pre))
    /\ last.op = "erase" =>
           Now = SubSeq(Pre, 1, LastPosition) \o SubSeq(Pre, LastPosition + 2, Len(Pre))
    /\ last.op = "iterator_at" =>
           last.out = IF LastPosition < Len(Pre) THEN {Pre[LastPosition + 1]} ELSE {}

C19_Witness ==
    /\ last.op = "erase"
    /\ DOMAIN Only(last.pos) = Forms
    /\ Only(last.pos).get = 0
    /\ Only(last.pos).value = 1
    /\ Only(last.pos).convert = 1
    /\ Len(Pre) = MaxSize
    /\ Pre[1] # Pre[2]


\* the names of the index types of the programs, the Strong Index of two
\* domains among them, and of the raw integer types
IndexNames ==
    {"EmployeeIndex", "DepartmentIndex", "BoostStyleStrongType", "NamedTypeStyle<Tag1>",
     "OptionalStyle<Tag2>", "FlexibleStrongType"}

StrongIndexNames == {"EmployeeIndex", "DepartmentIndex"}

RawNames == {"std::size_t", "int"}

C17_RawIntegerRejected ==
    /\ (/\ build.expr = "call"
        /\ build.index \in IndexNames
        /\ build.arg \in RawNames) => ~build.accepted
    /\ (/\ build.expr = "copy_init"
        /\ \/ build.index \in StrongIndexNames /\ build.arg \in RawNames
           \/ build.index \in RawNames /\ build.arg \in StrongIndexNames) => ~build.accepted
    /\ (/\ build.expr \in {"concept", "instantiate"}
        /\ build.index \in RawNames) => ~build.accepted

C17_Witness ==
    /\ build.expr = "call"
    /\ build.method = "at"
    /\ build.index = "EmployeeIndex"
    /\ build.arg = "int"
    /\ ~build.accepted

\* the members the claim names
FixedSizeAbsent == {"push_back", "emplace_back", "pop_back", "reserve", "capacity"}

FixedSizePresent == {"operator[]", "at", "size", "begin", "end", "data"}

\* C18: a member of the adapter compiles exactly when the container has what
\* it forwards to: over std::array there is no append, remove-last, reserve or
\* capacity, yet indexed access, size, iteration and data(); over std::vector
\* every member is there
C18_MethodsFollowCapabilities ==
    build.expr = "member" =>
        /\ build.accepted =
               (\/ build.method \in {"begin", "end", "size"}
                \/ build.method \in members(build.container))
        /\ build.container = "std::array" /\ build.method \in FixedSizeAbsent
               => ~build.accepted
        /\ build.container = "std::array" /\ build.method \in FixedSizePresent
               => build.accepted
        /\ build.container = "std::vector" => build.accepted

C18_Witness ==
    /\ build.expr = "member"
    /\ build.container = "std::array"
    /\ build.method = "push_back"
    /\ ~build.accepted

\* the number of extraction forms each named type has
FormCount(n) ==
    CASE n \in StrongIndexNames -> 3
      [] n = "FlexibleStrongType" -> 3
      [] n \in {"BoostStyleStrongType", "NamedTypeStyle<Tag1>", "OptionalStyle<Tag2>"} -> 1
      [] n \in RawNames -> 1
      [] n = "EmployeeTag" -> 0

\* C20 as stated: a type qualifies only with exactly one extraction form
C20_ExactlyOneForm ==
    build.expr = "concept" =>
        (build.accepted => FormCount(build.index) = 1 /\ build.index \notin RawNames)

\* C20: a type qualifies as an index type exactly when it is not a raw
\* integral type and has at least one of the three extraction forms; a type
\* with two or all three of them qualifies as well
C20_AtLeastOneForm ==
    build.expr = "concept" =>
        build.accepted = (FormCount(build.index) >= 1 /\ build.index \notin RawNames)

C20_Witness ==
    /\ build.expr = "concept"
    /\ build.index = "FlexibleStrongType"
    /\ build.accepted


\* the index an operator was applied to, its offset, and the index it returned
Operand == Only(last.pos)

Offset == Only(last.count)

Returned == Only(last.ret)

\* the sum and difference of a raw position and an offset as std::size_t values
RawPlus(m, n) == (m + n) % SizeMod

RawMinus(m, n) == (m - n) % SizeMod

\* + and -, += and -= give the index at the raw position the same arithmetic
\* on std::size_t gives, the assignments leaving it in the variable
OffsetsAgree ==
    /\ last.op = "plus" => value(Returned) = RawPlus(value(Operand), Offset)
    /\ last.op = "minus" => value(Returned) = RawMinus(value(Operand), Offset)
    /\ last.op = "plus_assign" =>
           value(ix) = RawPlus(value(Operand), Offset) /\ Returned = ix
    /\ last.op = "minus_assign" =>
           value(ix) = RawMinus(value(Operand), Offset) /\ Returned = ix

\* a - b is the signed difference of the raw positions, negative exactly when
\* a < b, the negation of b - a
DifferenceIsSigned ==
    /\ last.out = {value(Operand) - value(Only(last.pos2))}
    /\ (Only(last.out) < 0) = index_less(Operand, Only(last.pos2))
    /\ Only(last.out) = -Only(last.count)

\* C21 as stated: for any two indices and any offset
C21_ArithmeticAgrees ==
    /\ OffsetsAgree
    /\ last.op = "difference" => DifferenceIsSigned
    /\ last.op = "plus_difference" => last.out = last.count

\* C21: index arithmetic with an offset agrees with std::size_t arithmetic on
\* the raw positions; a - b is the signed difference, negative exactly when
\* a < b, with (a - b) = -(b - a) and (a + n) - a = n, as long as the raw
\* positions involved are ones std::ptrdiff_t holds
C21_ArithmeticAgreesInRange ==
    /\ OffsetsAgree
    /\ (/\ last.op = "difference"
        /\ value(Operand) <= PtrdiffMax
        /\ value(Only(last.pos2)) <= PtrdiffMax) => DifferenceIsSigned
    /\ (/\ last.op = "plus_difference"
        /\ value(Operand) + Offset <= PtrdiffMax) => last.out = last.count

C21_Witness ==
    /\ last.op = "difference"
    /\ value(Operand) = 1
    /\ value(Only(last.pos2)) = 2
    /\ last.out = {-1}
    /\ last.count = {1}

Increments == {"pre_increment", "post_increment"}

Decrements == {"pre_decrement", "post_decrement"}

\* C22: ++ and -- move the index by one; the prefix forms yield the index
\* after the change, the postfix forms the index before it; a decrement right
\* after an increment leaves the index where it was
C22_IncrementDecrement ==
    /\ [](/\ last.op \in Increments => value(ix) = RawPlus(value(Operand), 1)
          /\ last.op \in Decrements => value(ix) = RawMinus(value(Operand), 1)
          /\ last.op \in {"pre_increment", "pre_decrement"} => Returned = ix
          /\ last.op \in {"post_increment", "post_decrement"} => Returned = Operand)
    /\ [][(last.op \in Increments /\ last'.op \in Decrements) => ix' = Operand]_vars

C22_Witness ==
    /\ last.op = "post_increment"
    /\ value(Operand) = 5
    /\ value(Returned) = 5
    /\ value(ix) = 6

\* C30: index arithmetic wraps and never fails: -- at raw position 0 and the
\* subtraction of an offset above the raw position give the position 2^w
\* higher, which compares greater than the index; ++ at the largest raw
\* position gives 0
C30_ArithmeticWraps ==
    /\ last.op \in Decrements /\ value(Operand) = 0 =>
           value(ix) = SizeMod - 1 /\ last.outcome = "ok"
    /\ last.op \in Increments /\ value(Operand) = SizeMod - 1 =>
           value(ix) = 0 /\ last.outcome = "ok"
    /\ last.op = "minus" /\ Offset > value(Operand) =>
           /\ value(Returned) = value(Operand) - Offset + SizeMod
           /\ index_less(Operand, Returned)
           /\ last.outcome = "ok"
    /\ last.op = "minus_assign" /\ Offset > value(Operand) =>
           /\ value(ix) = value(Operand) - Offset + SizeMod
           /\ index_less(Operand, ix)
           /\ last.outcome = "ok"

C30_Witness ==
    /\ last.op = "minus"
    /\ value(Operand) = 1
    /\ Offset = 2
    /\ value(Returned) = SizeMod - 1


\* C23: pop_back() removes the last element and nothing else and returns
\* nothing; clear() leaves no element; empty() holds exactly when size() is 0
C23_PopBackClearEmpty ==
    /\ last.op = "pop_back" =>
           /\ size(Now) = size(Pre) - 1
           /\ \A i \in 1 .. Len(Now) : Now[i] = Pre[i]
           /\ last.ret = {} /\ last.out = {}
    /\ last.op = "clear" => size(Now) = 0 /\ empty(Now)
    /\ \A x \in Adapters : empty(c[x]) <=> size(c[x]) = 0

C23_Witness ==
    /\ last.op = "pop_back"
    /\ Pre = <<"Bob", "Alice">>
    /\ Now = <<"Bob">>
    /\ ~empty(Now)

\* the count a resize or reserve was given
Count == Only(last.count)

\* C24: a resize that returns leaves size() = count, keeps the elements below
\* count and fills the new positions with the fill value (the default value
\* for resize(count)); reserve and shrink_to_fit keep size and elements, and a
\* reserve(n) that returns leaves capacity() >= n
C24_ResizeReserve ==
    /\ (last.op \in {"resize", "resize_fill"} /\ last.outcome = "ok") =>
           /\ size(Now) = Count
           /\ \A i \in 1 .. Len(Now) :
                  Now[i] = IF i <= Len(Pre) THEN Pre[i]
                           ELSE IF last.op = "resize" THEN ValueInit ELSE Only(last.val)
    /\ last.op \in {"reserve", "shrink_to_fit"} => Now = Pre
    /\ (last.op = "reserve" /\ last.outcome = "ok") => capacity(last.who) >= Count

C24_Witness ==
    /\ last.op = "resize_fill"
    /\ Pre = <<"Bob">>
    /\ Count = 3
    /\ Now = <<"Bob", "Alice", "Alice">>

\* C27: whatever calls were made, at() succeeds on exactly the indices
\* 0 .. size() - 1
C27_Dense ==
    \A x \in Adapters : \A n \in 0 .. (SizeMod - 1) :
        (at(c[x], index_type(n)).outcome = "ok") <=> (n <= size(c[x]) - 1)

C27_Witness ==
    /\ last.op = "erase"
    /\ size(Pre) = 3
    /\ ErasedFirst = 0
    /\ at(Now, index_type(1)).outcome = "ok"
    /\ at(Now, index_type(2)).outcome = "out_of_range"

\* the erased range ran up to the end of the container
ErasedToEnd == last.op \in Erases /\ ErasedLast = size(Pre)

\* C29: an erase up to the end returns the index size(), on which at() raises
\* and which the next push_back returns; erasing an empty range removes
\* nothing and returns first
C29_EraseToEnd ==
    /\ [](/\ ErasedToEnd =>
               /\ value(Returned) = size(Now)
               /\ at(Now, Returned).outcome = "out_of_range"
          /\ (last.op = "erase_range" /\ last.pos = last.pos2) =>
               Now = Pre /\ last.ret = last.pos)
    /\ [][(ErasedToEnd /\ last'.op = "push_back") => last'.ret = last.ret]_vars

C29_Witness ==
    /\ last.op = "erase_range"
    /\ size(Pre) = 3
    /\ ErasedFirst = 1
    /\ ErasedLast = 3
    /\ value(Returned) = 1
    /\ size(Now) = 1


\* the arguments of a range construction
Source == last.tmp

First == Only(last.pos)

Last == Only(last.pos2)

\* C25: a constructed adapter holds what the container built from the same
\* arguments holds: nothing by default, count elements for a count, count
\* copies of the value for count and value, the elements in their order for
\* an iterator pair or a literal sequence, the contents of a given container
C25_ConstructorsForward ==
    /\ last.op = "construct_default" => size(Now) = 0 /\ last.out = {Now}
    /\ (last.op = "construct_count" /\ last.outcome = "ok") =>
           size(Now) = Count /\ last.out = {Now}
    /\ (last.op = "construct_count_value" /\ last.outcome = "ok") =>
           /\ size(Now) = Count
           /\ \A i \in 1 .. Len(Now) : Now[i] = Only(last.val)
           /\ last.out = {Now}
    /\ last.op = "construct_range" =>
           /\ size(Now) = Last.off - First.off
           /\ \A i \in 1 .. Len(Now) : Now[i] = Source[First.off + i]
           /\ last.out = {Now}
    /\ last.op \in {"construct_list", "construct_copy", "construct_move"} =>
           /\ size(Now) = Len(Source)
           /\ \A i \in 1 .. Len(Now) : Now[i] = Source[i]
           /\ last.out = {Now}

C25_Witness ==
    /\ last.op = "construct_range"
    /\ Source = <<"Alice", "Bob", "Charlie">>
    /\ First = iter(1)
    /\ Last = iter(3)
    /\ Now = <<"Bob", "Charlie">>


\* C28: an index kept from an append goes on yielding its element through
\* later appends, reserve, shrink_to_fit, writes and pop_back calls that do
\* not remove the element
C28_HeldIndexStable ==
    \A h \in held :
        /\ get_index_value(h.idx) < size(c["a"])
        /\ subscript(c["a"], h.idx) = h.val
        /\ at(c["a"], h.idx) = [outcome |-> "ok", out |-> {h.val}]

C28_Witness ==
    /\ last.op = "pop_back"
    /\ size(Pre) = 3
    /\ cap["a"] = 3
    /\ \E h \in held : value(h.idx) = 0 /\ h.val = "Alice"
    /\ \E h \in held : value(h.idx) = 1 /\ h.val = "Bob"


\* C26: nothing in the adapter keeps a thread out of push_back while another
\* thread is between its append and its read of size(); every call returns
\* size() - 1 as it is when read, so two calls that both appended before
\* either read return the same index
C26_NoSynchronization ==
    /\ [](\A t \in Threads : \A u \in Threads \ {t} :
              /\ (/\ Running
                  /\ threads.pc[t] = "stored"
                  /\ threads.pc[u] \in {"idle", "returned"}
                  /\ size(c["a"]) + Cardinality(Inside) < MaxSize) =>
                     ENABLED (\E v \in Values : Enter(u, v))
              /\ (/\ threads.together
                  /\ threads.pc[t] = "returned"
                  /\ threads.pc[u] = "returned") => threads.ret[t] = threads.ret[u])
    /\ [][\A t \in Threads :
              (threads.pc[t] = "stored" /\ threads'.pc[t] = "returned") =>
                  threads'.ret[t] = {index_type(size(c["a"]) - 1)}]_vars

C26_Witness ==
    /\ threads.together
    /\ \A t \in Threads : threads.pc[t] = "returned" /\ threads.ret[t] = {index_type(1)}
    /\ c["a"] = <<"Alice", "Bob">>

====
